---- MODULE Spec2Model ----
(***************************************************************************)
(* Model of sverchok's update-event centralisation, core/events.py:        *)
(* the class CurrentEvents (wave buffer events_wave, the flag              *)
(* _to_listen_new_events), the two event enumerations, the tables          *)
(* EVENT_CONVERSION and DRAW_METHODS, and the flush performed by           *)
(* handle_new_event.                                                       *)
(*                                                                         *)
(* The host is single threaded.  A flush calls out to the draw methods of  *)
(* the nodes and to process_from_nodes; while such a call is running the   *)
(* host may call add_new_event again, so the flush is split at these calls *)
(* and the activations of handle_new_event are kept as a stack (frames).   *)
(* The collaborators are not part of the module: a draw method or          *)
(* process_from_nodes either returns or raises, chosen nondeterministically*)
(* The diagnostic printing of is_in_debug_mode has no effect on the state  *)
(* and is left out.                                                        *)
(***************************************************************************)
EXTENDS Naturals, Sequences, FiniteSets

\* ---------------------------------------------------------------- bounds
\* longest wave the host is allowed to build
MaxWave == 3
\* deepest nesting of handle_new_event activations
MaxDepth == 2
\* the nodes of the tree the host reports about
Nodes == {"A", "B"}

VARIABLES
    events_wave,            \* CurrentEvents.events_wave
    to_listen_new_events,   \* CurrentEvents._to_listen_new_events (the gate)
    frames,                 \* activations of handle_new_event that are inside a flush
    result,                 \* how the most recent add_new_event call ended
    drawn,                  \* draw methods invoked during the current host call
    recomputed              \* argument lists process_from_nodes received during it

vars == <<events_wave, to_listen_new_events, frames, result, drawn, recomputed>>

\* ------------------------------------------------------------ enumerations
BlenderEventsTypes ==
    {"tree_update", "monad_tree_update", "node_update", "add_node", "copy_node",
     "free_node", "add_link_to_node", "node_property_update", "undo", "frame_change"}

SverchokEventsTypes ==
    {"add_node", "copy_node", "free_node", "node_property_update",
     "node_link_update", "undo", "undefined", "frame_change"}

\* EVENT_CONVERSION without the entry of add_link_to_node
EVENT_CONVERSION_no_link ==
    [k \in BlenderEventsTypes \ {"add_link_to_node"} |->
        CASE k = "tree_update"          -> "undefined"
          [] k = "monad_tree_update"    -> "undefined"
          [] k = "node_update"          -> "undefined"
          [] k = "add_node"             -> "add_node"
          [] k = "copy_node"            -> "copy_node"
          [] k = "free_node"            -> "free_node"
          [] k = "node_property_update" -> "node_property_update"
          [] k = "undo"                 -> "undo"
          [] k = "frame_change"         -> "frame_change"]

EVENT_CONVERSION ==
    [k \in BlenderEventsTypes |->
        CASE k = "tree_update"          -> "undefined"
          [] k = "monad_tree_update"    -> "undefined"
          [] k = "node_update"          -> "undefined"
          [] k = "add_node"             -> "add_node"
          [] k = "copy_node"            -> "copy_node"
          [] k = "free_node"            -> "free_node"
          [] k = "add_link_to_node"     -> "node_link_update"
          [] k = "node_property_update" -> "node_property_update"
          [] k = "undo"                 -> "undo"
          [] k = "frame_change"         -> "frame_change"]

\* DRAW_METHODS with the methods of add_node and copy_node exchanged
DRAW_METHODS_init_copy_swapped ==
    [t \in {"add_node", "copy_node", "free_node", "node_link_update"} |->
        CASE t = "add_node"         -> "sv_copy"
          [] t = "copy_node"        -> "sv_init"
          [] t = "free_node"        -> "sv_free"
          [] t = "node_link_update" -> "sv_update"]

DRAW_METHODS ==
    [t \in {"add_node", "copy_node", "free_node", "node_link_update"} |->
        CASE t = "add_node"         -> "sv_init"
          [] t = "copy_node"        -> "sv_copy"
          [] t = "free_node"        -> "sv_free"
          [] t = "node_link_update" -> "sv_update"]

\* the name a failed dictionary lookup yields instead of a method name
KeyError == "KeyError"

get_draw_method_name(t) ==
    IF t \in DOMAIN DRAW_METHODS THEN DRAW_METHODS[t] ELSE KeyError

BlenderEvent(event_type, updated_element) ==
    [type |-> event_type, updated_element |-> updated_element]

SverchokEvent(event_type, node) ==
    [type |-> event_type, node |-> node]

\* raised is TRUE when the lookup in EVENT_CONVERSION fails
convert_to_sverchok_event(ev) ==
    IF ev.type \in DOMAIN EVENT_CONVERSION
    THEN [raised |-> FALSE, value |-> SverchokEvent(EVENT_CONVERSION[ev.type], ev.updated_element)]
    ELSE [raised |-> TRUE, value |-> SverchokEvent("undefined", ev.updated_element)]

\* sign_of_wave_end without undo
sign_of_wave_end_no_undo ==
    {"tree_update", "node_property_update", "monad_tree_update", "frame_change"}

sign_of_wave_end ==
    {"tree_update", "node_property_update", "monad_tree_update", "undo", "frame_change"}

\* is_wave_end that looks at the first event of the wave
is_wave_end_first_event(wave) == wave[1].type \in sign_of_wave_end

is_wave_end(wave) == wave[Len(wave)].type \in sign_of_wave_end

\* takewhile that keeps the whole wave
takewhile_whole_wave(t, wave) == wave

\* takewhile that stops one event too late
takewhile_one_too_many(t, wave) ==
    LET n == CHOOSE m \in 0..Len(wave) :
                 /\ \A i \in 1..m : wave[i].type = t
                 /\ m < Len(wave) => wave[m + 1].type # t
    IN  SubSeq(wave, 1, IF n < Len(wave) THEN n + 1 ELSE n)

RECURSIVE takewhile(_, _)
takewhile(t, wave) ==
    IF wave = <<>> THEN <<>>
    ELSE IF Head(wave).type = t
         THEN <<Head(wave)>> \o takewhile(t, Tail(wave))
         ELSE <<>>

\* the converter without its branch for tree_update and monad_tree_update
convert_wave_tree_update_converted(wave) ==
    IF wave[1].type \in {"undo", "frame_change"} THEN [raised |-> FALSE, value |-> <<>>]
    ELSE LET all_events_of_first_type == takewhile(wave[1].type, wave)
             converted == [i \in 1..Len(all_events_of_first_type) |->
                              convert_to_sverchok_event(all_events_of_first_type[i])]
         IN  [raised |-> \E i \in 1..Len(converted) : converted[i].raised,
              value  |-> [i \in 1..Len(converted) |-> converted[i].value]]

\* the converter without its branch for undo
convert_wave_undo_converted(wave) ==
    IF wave[1].type = "frame_change" THEN [raised |-> FALSE, value |-> <<>>]
    ELSE IF wave[1].type \in {"tree_update", "monad_tree_update"}
         THEN [raised |-> FALSE, value |-> <<>>]
    ELSE LET all_events_of_first_type == takewhile(wave[1].type, wave)
             converted == [i \in 1..Len(all_events_of_first_type) |->
                              convert_to_sverchok_event(all_events_of_first_type[i])]
         IN  [raised |-> \E i \in 1..Len(converted) : converted[i].raised,
              value  |-> [i \in 1..Len(converted) |-> converted[i].value]]

convert_wave_to_sverchok_events(wave) ==
    IF wave[1].type = "undo" THEN [raised |-> FALSE, value |-> <<>>]
    ELSE IF wave[1].type = "frame_change" THEN [raised |-> FALSE, value |-> <<>>]
    ELSE IF wave[1].type \in {"tree_update", "monad_tree_update"}
         THEN [raised |-> FALSE, value |-> <<>>]
    ELSE LET all_events_of_first_type == takewhile(wave[1].type, wave)
             converted == [i \in 1..Len(all_events_of_first_type) |->
                              convert_to_sverchok_event(all_events_of_first_type[i])]
         IN  [raised |-> \E i \in 1..Len(converted) : converted[i].raised,
              value  |-> [i \in 1..Len(converted) |-> converted[i].value]]

IsNotFreeNode(ev) == ev.type # "free_node"

\* update_nodes without the test for free_node
nodes_to_process_freed_too(sverchok_events) ==
    [i \in 1..Len(sverchok_events) |-> sverchok_events[i].node]

\* the list update_nodes hands to process_from_nodes
nodes_to_process(sverchok_events) ==
    LET kept == SelectSeq(sverchok_events, IsNotFreeNode)
    IN  [i \in 1..Len(kept) |-> kept[i].node]

\* ------------------------------------------------------------ call stack
Frame(sverchok_events) == [sverchok_events |-> sverchok_events, i |-> 1, pc |-> "redraw_nodes"]

Top == frames[Len(frames)]

Pop == SubSeq(frames, 1, Len(frames) - 1)

SetTop(f) == [frames EXCEPT ![Len(frames)] = f]

InCallback == frames # <<>> /\ Top.pc \in {"draw_method", "process_from_nodes"}

\* ------------------------------------------------------------ operations
Init ==
    /\ events_wave = <<>>
    /\ to_listen_new_events = TRUE
    /\ frames = <<>>
    /\ result = "none"
    /\ drawn = <<>>
    /\ recomputed = <<>>

\* handle_new_event that leaves the gate open during the flush
handle_new_event_gate_left_open(wave) ==
    IF ~is_wave_end(wave)
    THEN /\ UNCHANGED <<to_listen_new_events, frames>>
         /\ result' = "buffered"
    ELSE /\ UNCHANGED to_listen_new_events
         /\ LET sverchok_events == convert_wave_to_sverchok_events(wave)
            IN  IF sverchok_events.raised
                THEN /\ UNCHANGED frames
                     /\ result' = "raised"
                ELSE /\ frames' = Append(frames, Frame(sverchok_events.value))
                     /\ result' = "running"

\* handle_new_event up to its first call of a collaborator, on the wave just extended
handle_new_event(wave) ==
    IF ~is_wave_end(wave)
    THEN /\ UNCHANGED <<to_listen_new_events, frames>>
         /\ result' = "buffered"
    ELSE /\ to_listen_new_events' = FALSE
         /\ LET sverchok_events == convert_wave_to_sverchok_events(wave)
            IN  IF sverchok_events.raised
                THEN /\ UNCHANGED frames
                     /\ result' = "raised"
                ELSE /\ frames' = Append(frames, Frame(sverchok_events.value))
                     /\ result' = "running"

\* the early return of add_new_event without the test for node_update
Ignored_gate_only(event_type) == ~to_listen_new_events

\* the early return of add_new_event
Ignored(event_type) == ~to_listen_new_events \/ event_type = "node_update"

add_new_event(event_type, updated_element) ==
    IF Ignored(event_type)
    THEN /\ UNCHANGED <<events_wave, to_listen_new_events, frames>>
         /\ result' = "ignored"
    ELSE /\ events_wave' = Append(events_wave, BlenderEvent(event_type, updated_element))
         /\ handle_new_event(events_wave')

\* the host reports an event while no flush is running
HostCallsAddNewEvent(event_type, updated_element) ==
    /\ frames = <<>>
    /\ Ignored(event_type) \/ Len(events_wave) < MaxWave
    /\ add_new_event(event_type, updated_element)
    /\ drawn' = <<>>
    /\ recomputed' = <<>>

\* the host reports an event from inside a draw method or process_from_nodes
CallbackCallsAddNewEvent(event_type, updated_element) ==
    /\ InCallback
    /\ Ignored(event_type) \/ (Len(events_wave) < MaxWave /\ Len(frames) < MaxDepth)
    /\ add_new_event(event_type, updated_element)
    /\ UNCHANGED <<drawn, recomputed>>

\* an exception leaves the innermost handle_new_event and its add_new_event
Raise ==
    /\ frames' = Pop
    /\ result' = "raised"
    /\ UNCHANGED <<events_wave, to_listen_new_events>>

\* redraw_nodes that draws a node once only for the same kind of event
redraw_nodes_once_per_node ==
    /\ frames # <<>>
    /\ Top.pc = "redraw_nodes"
    /\ Top.i <= Len(Top.sverchok_events)
    /\ LET sv_event == Top.sverchok_events[Top.i]
           method == get_draw_method_name(sv_event.type)
       IN  IF method = KeyError
           THEN Raise /\ UNCHANGED <<drawn, recomputed>>
           ELSE IF \E j \in 1..Len(drawn) : drawn[j] = <<method, sv_event.node>>
           THEN /\ frames' = SetTop([Top EXCEPT !.i = @ + 1])
                /\ UNCHANGED <<events_wave, to_listen_new_events, result, drawn, recomputed>>
           ELSE /\ drawn' = Append(drawn, <<method, sv_event.node>>)
                /\ frames' = SetTop([Top EXCEPT !.pc = "draw_method"])
                /\ UNCHANGED <<events_wave, to_listen_new_events, result, recomputed>>

\* one iteration of the loop of redraw_nodes, up to the call of the draw method
redraw_nodes ==
    /\ frames # <<>>
    /\ Top.pc = "redraw_nodes"
    /\ Top.i <= Len(Top.sverchok_events)
    /\ LET sv_event == Top.sverchok_events[Top.i]
           method == get_draw_method_name(sv_event.type)
       IN  IF method = KeyError
           THEN Raise /\ UNCHANGED <<drawn, recomputed>>
           ELSE /\ drawn' = Append(drawn, <<method, sv_event.node>>)
                /\ frames' = SetTop([Top EXCEPT !.pc = "draw_method"])
                /\ UNCHANGED <<events_wave, to_listen_new_events, result, recomputed>>

DrawMethodReturns ==
    /\ frames # <<>>
    /\ Top.pc = "draw_method"
    /\ frames' = SetTop([Top EXCEPT !.pc = "redraw_nodes", !.i = @ + 1])
    /\ UNCHANGED <<events_wave, to_listen_new_events, result, drawn, recomputed>>

\* the node has no such method, or the method fails
DrawMethodRaises ==
    /\ frames # <<>>
    /\ Top.pc = "draw_method"
    /\ Raise
    /\ UNCHANGED <<drawn, recomputed>>

\* update_nodes entered without waiting for the end of the redraw loop
update_nodes_during_redraw ==
    /\ frames # <<>>
    /\ Top.pc = "redraw_nodes"
    /\ recomputed' = Append(recomputed, nodes_to_process(Top.sverchok_events))
    /\ frames' = SetTop([Top EXCEPT !.pc = "process_from_nodes"])
    /\ UNCHANGED <<events_wave, to_listen_new_events, result, drawn>>

\* redraw_nodes is over: update_nodes calls process_from_nodes
update_nodes ==
    /\ frames # <<>>
    /\ Top.pc = "redraw_nodes"
    /\ Top.i > Len(Top.sverchok_events)
    /\ recomputed' = Append(recomputed, nodes_to_process(Top.sverchok_events))
    /\ frames' = SetTop([Top EXCEPT !.pc = "process_from_nodes"])
    /\ UNCHANGED <<events_wave, to_listen_new_events, result, drawn>>

\* the end of handle_new_event without events_wave.clear()
ProcessFromNodesReturns_wave_kept ==
    /\ frames # <<>>
    /\ Top.pc = "process_from_nodes"
    /\ to_listen_new_events' = TRUE
    /\ frames' = Pop
    /\ result' = "flushed"
    /\ UNCHANGED <<events_wave, drawn, recomputed>>

\* the end of handle_new_event removing only the converted events from the wave
ProcessFromNodesReturns_prefix_removed ==
    /\ frames # <<>>
    /\ Top.pc = "process_from_nodes"
    /\ to_listen_new_events' = TRUE
    /\ events_wave' = SubSeq(events_wave, Len(Top.sverchok_events) + 1, Len(events_wave))
    /\ frames' = Pop
    /\ result' = "flushed"
    /\ UNCHANGED <<drawn, recomputed>>

\* process_from_nodes returned: the last two statements of handle_new_event
ProcessFromNodesReturns ==
    /\ frames # <<>>
    /\ Top.pc = "process_from_nodes"
    /\ to_listen_new_events' = TRUE
    /\ events_wave' = <<>>
    /\ frames' = Pop
    /\ result' = "flushed"
    /\ UNCHANGED <<drawn, recomputed>>

ProcessFromNodesRaises ==
    /\ frames # <<>>
    /\ Top.pc = "process_from_nodes"
    /\ Raise
    /\ UNCHANGED <<drawn, recomputed>>

Next ==
    \/ \E k \in BlenderEventsTypes, n \in Nodes : HostCallsAddNewEvent(k, n)
    \/ \E k \in BlenderEventsTypes, n \in Nodes : CallbackCallsAddNewEvent(k, n)
    \/ redraw_nodes
    \/ DrawMethodReturns
    \/ DrawMethodRaises
    \/ update_nodes
    \/ ProcessFromNodesReturns
    \/ ProcessFromNodesRaises

Spec == Init /\ [][Next]_vars

\* the buffer already holds an arbitrary wave that did not end a burst: the
\* inputs of convert_wave_to_sverchok_events drawn from all short sequences
WaveEvents == {BlenderEvent(k, n) : k \in BlenderEventsTypes, n \in Nodes}

InitWave ==
    /\ events_wave \in UNION {[1..l -> WaveEvents] : l \in 0..(MaxWave - 1)}
    /\ events_wave # <<>> => ~is_wave_end(events_wave)
    /\ to_listen_new_events = TRUE
    /\ frames = <<>>
    /\ result = "none"
    /\ drawn = <<>>
    /\ recomputed = <<>>

SpecWave == InitWave /\ [][Next]_vars

\* ------------------------------------------------------------------ claims

\* C1: the gate is open whenever no flush is executing, on every exit path
\* of handle_new_event, the ones that raise included.
GateOpenWhenNoFlush == frames = <<>> => to_listen_new_events

\* C2: once the flush started by a wave-ending event has run to completion,
\* events_wave is empty and the gate is open.
WaveEmptyAfterFlush ==
    (frames = <<>> /\ result = "flushed") => (events_wave = <<>> /\ to_listen_new_events)

FlushOfLongWaveCompleted ==
    /\ frames = <<>>
    /\ result = "flushed"
    /\ Len(drawn) >= 2
    /\ recomputed # <<>>

\* C3: after a flush that failed, the next add_new_event of a kind other than
\* node_update is appended to the wave (and a wave-ending one starts a flush).
RecordedAfterFailedFlush ==
    [][(/\ frames = <<>>
        /\ result = "raised"
        /\ \E k \in BlenderEventsTypes \ {"node_update"}, n \in Nodes :
              HostCallsAddNewEvent(k, n))
       => (/\ Len(events_wave') = Len(events_wave) + 1
           /\ (is_wave_end(events_wave') => frames' # <<>>))]_vars

\* C4: an error of the converter or of a dispatch pass is not propagated out
\* of add_new_event: the host sees a normal return.
NoErrorReachesHost == frames = <<>> => result # "raised"

\* kinds whose wave the converter turns into no semantic event at all
InertKinds == {"undo", "frame_change", "tree_update", "monad_tree_update"}

\* C5: for a wave headed by a node-mutation kind the converter returns exactly
\* the longest prefix of events of the head's kind, each mapped through
\* EVENT_CONVERSION, in order and with repeated subjects kept; what follows the
\* prefix yields no semantic event in this flush, and once the flush is over
\* it is either cleared from the buffer or shut behind the closed gate, so no
\* later flush can convert it.
PrefixConverted ==
    /\ (frames # <<>> /\ events_wave[1].type \notin InertKinds) =>
          LET sv == frames[1].sverchok_events
              n  == Len(sv)
          IN  /\ n >= 1
              /\ n <= Len(events_wave)
              /\ \A i \in 1..n :
                    /\ events_wave[i].type = events_wave[1].type
                    /\ sv[i].type = EVENT_CONVERSION[events_wave[i].type]
                    /\ sv[i].node = events_wave[i].updated_element
              /\ n < Len(events_wave) => events_wave[n + 1].type # events_wave[1].type
              /\ Len(drawn) <= n
    /\ (frames = <<>> /\ result \in {"flushed", "raised"}) =>
          (events_wave = <<>> \/ ~to_listen_new_events)

TrailingEventDropped ==
    /\ frames # <<>>
    /\ Top.pc = "process_from_nodes"
    /\ Len(events_wave) = 3
    /\ events_wave[1].type = "add_node"
    /\ events_wave[3].type = "node_property_update"
    /\ Len(Top.sverchok_events) = 2
    /\ Top.sverchok_events[1].node # Top.sverchok_events[2].node

\* C6: a wave whose first event is undo, frame_change, tree_update or
\* monad_tree_update converts to the empty semantic sequence whatever follows
\* the first event: no draw method is invoked and process_from_nodes receives
\* no node.
InertWaveDispatchesNothing ==
    (events_wave # <<>> /\ events_wave[1].type \in InertKinds) =>
        /\ \A d \in 1..Len(frames) : frames[d].sverchok_events = <<>>
        /\ drawn = <<>>
        /\ \A j \in 1..Len(recomputed) : recomputed[j] = <<>>

UndoWaveWithFollowersFlushed ==
    /\ frames # <<>>
    /\ Top.pc = "process_from_nodes"
    /\ Len(events_wave) = 3
    /\ events_wave[1].type = "undo"
    /\ events_wave[2].type = "add_node"

RECURSIVE SubjectsNotFreed(_)
SubjectsNotFreed(sv) ==
    IF sv = <<>> THEN <<>>
    ELSE IF Head(sv).type = "free_node"
         THEN SubjectsNotFreed(Tail(sv))
         ELSE <<Head(sv).node>> \o SubjectsNotFreed(Tail(sv))

\* C7: the list handed to process_from_nodes is exactly the subjects of the
\* semantic events whose kind is not free_node, in the order of the semantic
\* sequence and with repetitions; the subject of a free_node event is not in it.
RecomputeListExcludesFreed ==
    (frames # <<>> /\ Top.pc = "process_from_nodes") =>
        /\ recomputed # <<>>
        /\ recomputed[Len(recomputed)] = SubjectsNotFreed(Top.sverchok_events)
        /\ (\A i \in 1..Len(Top.sverchok_events) : Top.sverchok_events[i].type = "free_node")
              => recomputed[Len(recomputed)] = <<>>

FreedNodesAtRecompute ==
    /\ frames # <<>>
    /\ Top.pc = "process_from_nodes"
    /\ Len(Top.sverchok_events) = 2
    /\ Top.sverchok_events[1].type = "free_node"

\* C8: process_from_nodes is called at most once per flush, and not at all
\* when the list of subjects that are not freed is empty.
RecomputeSkippedWhenEmpty ==
    /\ Len(recomputed) <= 1
    /\ \A j \in 1..Len(recomputed) : recomputed[j] # <<>>

\* C9: an add_new_event made from inside a draw method or process_from_nodes
\* during a flush is dropped: the wave, the gate and the running flush are
\* unchanged and no further conversion or dispatch starts.
CallInsideFlushDropped ==
    [][(\E k \in BlenderEventsTypes, n \in Nodes : CallbackCallsAddNewEvent(k, n))
       => (/\ UNCHANGED <<events_wave, to_listen_new_events, frames, drawn, recomputed>>
           /\ result' = "ignored")]_vars

CallIgnoredInsideFlush ==
    /\ frames # <<>>
    /\ Top.pc \in {"draw_method", "process_from_nodes"}
    /\ result = "ignored"
    /\ events_wave # <<>>

\* C10: add_new_event of kind node_update with the gate open leaves events_wave
\* as it is and starts no flush: nothing is converted, drawn or recomputed.
NodeUpdateIsNoOp ==
    [][(/\ to_listen_new_events
        /\ \E n \in Nodes : \/ HostCallsAddNewEvent("node_update", n)
                            \/ CallbackCallsAddNewEvent("node_update", n))
       => (/\ UNCHANGED <<events_wave, to_listen_new_events, frames>>
           /\ Len(drawn') <= Len(drawn)
           /\ Len(recomputed') <= Len(recomputed)
           /\ result' = "ignored")]_vars

NodeUpdateIgnoredWithGateOpen ==
    /\ frames = <<>>
    /\ to_listen_new_events
    /\ result = "ignored"
    /\ Len(events_wave) >= 1

\* the number of draw methods the outermost flush has invoked so far
Invoked ==
    IF frames[1].pc = "redraw_nodes" THEN frames[1].i - 1
    ELSE IF frames[1].pc = "draw_method" THEN frames[1].i
    ELSE Len(frames[1].sverchok_events)

\* C11: within a flush the redraw pass invokes one draw method per semantic
\* event, in the order of the semantic sequence, a repeated node being drawn
\* again: the j-th invocation is on the subject of the j-th semantic event.
RedrawFollowsSemanticOrder ==
    frames # <<>> =>
        /\ Len(drawn) = Invoked
        /\ Len(drawn) <= Len(frames[1].sverchok_events)
        /\ \A j \in 1..Len(drawn) :
              /\ drawn[j][2] = frames[1].sverchok_events[j].node
              /\ drawn[j][1] # KeyError

SameNodeInitialisedTwice ==
    /\ frames # <<>>
    /\ Top.pc = "process_from_nodes"
    /\ drawn = << <<"sv_init", "A">>, <<"sv_init", "A">> >>

\* C12: within a flush every invocation of a draw method precedes the call of
\* process_from_nodes: no draw method is invoked once process_from_nodes has
\* been called, and it is called only when the whole semantic sequence is drawn.
RedrawBeforeRecompute ==
    [][/\ Len(drawn') > Len(drawn) => (recomputed = <<>> /\ recomputed' = <<>>)
       /\ Len(recomputed') > Len(recomputed) =>
             (drawn' = drawn /\ Len(drawn) = Len(Top.sverchok_events))]_vars

RecomputeCalledAfterTwoDraws ==
    /\ frames # <<>>
    /\ Top.pc = "process_from_nodes"
    /\ Len(drawn) = 2
    /\ drawn[1][2] # drawn[2][2]
    /\ Len(recomputed) = 1

\* C13: a semantic event of kind node_property_update, undo, frame_change or
\* undefined is skipped by the redraw pass without an error, so the wave of a
\* single node_property_update on a node N completes its flush and hands <<N>>
\* to process_from_nodes: if that flush fails, it fails in process_from_nodes.
PropertyUpdateSkippedInRedraw ==
    (/\ frames = <<>>
     /\ result = "raised"
     /\ Len(events_wave) = 1
     /\ events_wave[1].type = "node_property_update")
    => recomputed = << <<events_wave[1].updated_element>> >>

\* the kinds that end a wave, as the specification lists them
TerminatorKinds ==
    {"tree_update", "monad_tree_update", "node_property_update", "undo", "frame_change"}

\* C14: when add_new_event accepts an event, the wave grows by exactly that
\* event; a flush begins if and only if its kind is tree_update,
\* monad_tree_update, node_property_update, undo or frame_change, and otherwise
\* the gate stays open and nothing is converted, drawn or recomputed.
FlushBeginsOnTerminatorOnly ==
    [][\A k \in BlenderEventsTypes, n \in Nodes :
          (/\ to_listen_new_events
           /\ k # "node_update"
           /\ HostCallsAddNewEvent(k, n) \/ CallbackCallsAddNewEvent(k, n))
          => /\ events_wave' = Append(events_wave, BlenderEvent(k, n))
             /\ IF k \in TerminatorKinds
                THEN /\ ~to_listen_new_events'
                     /\ Len(frames') = Len(frames) + 1
                     /\ result' = "running"
                ELSE /\ to_listen_new_events'
                     /\ frames' = frames
                     /\ result' = "buffered"
                     /\ Len(drawn') <= Len(drawn)
                     /\ Len(recomputed') <= Len(recomputed)]_vars

TwoEventsBuffered ==
    /\ frames = <<>>
    /\ to_listen_new_events
    /\ result = "buffered"
    /\ Len(events_wave) = 2
    /\ events_wave[1].type = "add_link_to_node"
    /\ events_wave[2].type = "free_node"

\* C15: the draw method invoked for a semantic event depends on its kind only:
\* sv_init for add_node, sv_copy for copy_node, sv_free for free_node and
\* sv_update for node_link_update, each on the subject of that very event.
DrawMethodSelectedByKind ==
    frames # <<>> =>
        \A j \in 1..Len(drawn) :
            LET sv_event == frames[1].sverchok_events[j]
            IN  /\ drawn[j][2] = sv_event.node
                /\ sv_event.type = "add_node" => drawn[j][1] = "sv_init"
                /\ sv_event.type = "copy_node" => drawn[j][1] = "sv_copy"
                /\ sv_event.type = "free_node" => drawn[j][1] = "sv_free"
                /\ sv_event.type = "node_link_update" => drawn[j][1] = "sv_update"
                /\ drawn[j][1] \in {"sv_init", "sv_copy", "sv_free", "sv_update"}

CopyThenCopyDrawn ==
    /\ frames # <<>>
    /\ Top.pc = "draw_method"
    /\ drawn = << <<"sv_copy", "A">>, <<"sv_copy", "B">> >>

\* C16: events_wave changes in two ways only: an accepted add_new_event appends
\* one event to its end, and the end of a flush clears it; no step removes,
\* reorders or rewrites a buffered event.
WaveAppendOrClear ==
    [][\/ events_wave' = events_wave
       \/ /\ to_listen_new_events
          /\ \E k \in BlenderEventsTypes \ {"node_update"}, n \in Nodes :
                /\ HostCallsAddNewEvent(k, n) \/ CallbackCallsAddNewEvent(k, n)
                /\ events_wave' = Append(events_wave, BlenderEvent(k, n))
       \/ /\ events_wave' = <<>>
          /\ frames # <<>>
          /\ Top.pc = "process_from_nodes"
          /\ frames' = Pop
          /\ result' = "flushed"]_vars

WaveClearedAfterFlush ==
    /\ frames = <<>>
    /\ result = "flushed"
    /\ events_wave = <<>>
    /\ drawn = << <<"sv_free", "B">> >>
    /\ recomputed = << <<>> >>

\* C17: while the gate is open and no flush is executing, events_wave holds no
\* event of a terminator kind; the wave under conversion is not empty and has
\* exactly one terminator event, its last; a wave that starts with a
\* terminator event has length 1.
TerminatorOnlyLast ==
    /\ (to_listen_new_events /\ frames = <<>>) =>
          \A i \in 1..Len(events_wave) : events_wave[i].type \notin TerminatorKinds
    /\ frames # <<>> =>
          /\ events_wave # <<>>
          /\ \A i \in 1..Len(events_wave) :
                events_wave[i].type \in TerminatorKinds <=> i = Len(events_wave)
    /\ (events_wave # <<>> /\ events_wave[1].type \in TerminatorKinds) =>
          Len(events_wave) = 1

LongWaveEntersRedraw ==
    /\ frames # <<>>
    /\ Top.pc = "redraw_nodes"
    /\ Top.i = 1
    /\ Len(events_wave) = 3
    /\ events_wave[3].type = "undo"

\* C18: EVENT_CONVERSION has an entry for every member of BlenderEventsTypes:
\* every buffered event has a mapped kind and no call of add_new_event ends
\* with the error of an unmapped kind raised by the converter.
ConverterNeverFails ==
    [][/\ BlenderEventsTypes \subseteq DOMAIN EVENT_CONVERSION
       /\ \A i \in 1..Len(events_wave') : events_wave'[i].type \in DOMAIN EVENT_CONVERSION
       /\ (\E k \in BlenderEventsTypes, n \in Nodes :
              HostCallsAddNewEvent(k, n) \/ CallbackCallsAddNewEvent(k, n))
          => result' # "raised"]_vars

LinkWaveConverted ==
    /\ frames # <<>>
    /\ Top.pc = "redraw_nodes"
    /\ Len(Top.sverchok_events) = 2
    /\ Top.sverchok_events[1].type = "node_link_update"

\* C19: all semantic events of one flush have the same kind, so the list
\* handed to process_from_nodes is empty (the kind is free_node) or holds the
\* subject of every semantic event of the flush.
OneKindPerFlush ==
    frames # <<>> =>
        LET sv == frames[1].sverchok_events
        IN  /\ \A i, j \in 1..Len(sv) : sv[i].type = sv[j].type
            /\ frames[1].pc = "process_from_nodes" =>
                  \/ /\ recomputed[1] = <<>>
                     /\ \A i \in 1..Len(sv) : sv[i].type = "free_node"
                  \/ /\ Len(recomputed[1]) = Len(sv)
                     /\ \A i \in 1..Len(sv) : recomputed[1][i] = sv[i].node

TwoCopiesRecomputed ==
    /\ frames # <<>>
    /\ Top.pc = "process_from_nodes"
    /\ Len(Top.sverchok_events) = 2
    /\ Top.sverchok_events[1].type = "copy_node"
    /\ Len(recomputed[1]) = 2

\* C20: no semantic event of kind undefined, undo or frame_change reaches the
\* dispatch phase: the kinds dispatched are add_node, copy_node, free_node,
\* node_link_update and node_property_update only.
DispatchedKinds ==
    \A d \in 1..Len(frames) : \A i \in 1..Len(frames[d].sverchok_events) :
        frames[d].sverchok_events[i].type \in
            {"add_node", "copy_node", "free_node", "node_link_update", "node_property_update"}

PropertyUpdateDispatched ==
    /\ frames # <<>>
    /\ Top.pc = "redraw_nodes"
    /\ Top.sverchok_events = << SverchokEvent("node_property_update", "B") >>

====
